---- MODULE Spec2Model ----
(***************************************************************************)
(* Model of scripts/imports/upload_products.py: the module-level script    *)
(* calls insert_products(csv_file, vendor_id) five times; each call reads  *)
(* a CSV file into a data frame, maps every row to a product document,     *)
(* submits the documents with one collection.insert_many call and prints   *)
(* one line.  Everything runs in one thread, one statement after another.  *)
(*                                                                         *)
(* The environment (file system, pandas, MongoDB) is modelled by its       *)
(* observable outcomes: pd.read_csv either raises or returns a data frame, *)
(* collection.insert_many either raises or returns.  Cell values are       *)
(* opaque: the cell of file f, row r, column c is the token <<f, r, c>>.   *)
(* Init is the state once lines 1-7 have run (the client is constructed).  *)
(* The locals of a call that has returned are unreachable; the model       *)
(* leaves them as they were until the next call binds them again.          *)
(***************************************************************************)
EXTENDS Integers, Sequences, FiniteSets, TLC

\* Largest number of data rows of a CSV file.
MaxRows == 2

\* ---------------------------------------------------------------- script

\* Lines 42-46: the five module-level calls, in order.
Invocations ==
  << [csv_file |-> "Canon_Pricing_Table.csv",         vendor_id |-> "67916a0d2de3001c450d5a17"],
     [csv_file |-> "Sharp_Pricing_Table.csv",         vendor_id |-> "67916a3f2de3001c450d5a1a"],
     [csv_file |-> "Konica_Minolta_Pricing_Table.csv", vendor_id |-> "67916a6e2de3001c450d5a1d"],
     [csv_file |-> "Ricoh_Pricing_Table.csv",         vendor_id |-> "67916aaf2de3001c450d5a20"],
     [csv_file |-> "Xerox_Pricing_Table.csv",         vendor_id |-> "67916af32de3001c450d5a23"] >>

NumCalls == Len(Invocations)

\* ------------------------------------------------------------ data frame

\* The column labels the dict literal of lines 19-31 subscripts, in the
\* order Python evaluates them.
Headers ==
  << "Manufacturer", "Model", "Speed", "Description", "Cost", "Installation",
     "Profit Margin", "Min Volume", "Max Volume", "Total Machine Cost" >>

HeaderSet == { Headers[k] : k \in 1..Len(Headers) }

\* Header rows a file may have: the ten columns, the ten columns and a
\* column named like the vendor field, and one with two columns absent.
ColumnSets ==
  { HeaderSet,
    HeaderSet \cup {"vendor"},
    HeaderSet \ {"Model", "Max Volume"} }

\* The value pandas holds for one cell.
Cell(f, r, c) == << f, r, c >>

\* What pd.read_csv(f) returns for a readable file with the given header
\* row and n data rows: the rows in file order, each indexed by column label.
Frame(f, cols, n) ==
  [ columns |-> cols,
    rows    |-> [ r \in 1..n |-> [ c \in cols |-> Cell(f, r, c) ] ] ]

\* Numbers of data rows a file may have: none, one, and the largest.
RowCounts == { 0, 1, MaxRows }

DataFrames(f) == { Frame(f, cols, n) : cols \in ColumnSets, n \in RowCounts }

\* df before line 14 has bound it.
NoFrame == [ columns |-> {}, rows |-> << >> ]

\* ------------------------------------------------------------ exceptions

NoError == [ type |-> "None", msg |-> "" ]

\* Raised by pd.read_csv (line 14).
LoadErrors == { [ type |-> "FileNotFoundError", msg |-> "No such file or directory" ] }

\* Raised by row[label] (lines 21-30) when the label is not a column.
KeyError(label) == [ type |-> "KeyError", msg |-> label ]

\* Raised by collection.insert_many (line 35).
WriteErrors == { [ type |-> "ServerSelectionTimeoutError", msg |-> "timed out" ] }

InvalidOperation == [ type |-> "InvalidOperation", msg |-> "No operations to execute" ]

\* Variant: a handler for the missing file only.
CaughtNarrow(exc) == exc.type \in { "FileNotFoundError" }

\* Line 38: "except Exception" handles every one of them.
Caught(exc) == TRUE

\* --------------------------------------------------------------- mapping

\* Variant: vendor taken from the file when it has such a column.
productVendorFromRow(row, vendor) ==
  [ vendor             |-> IF "vendor" \in DOMAIN row THEN row["vendor"] ELSE vendor,
    manufacturer       |-> row["Manufacturer"],
    model              |-> row["Model"],
    speed              |-> row["Speed"],
    description        |-> row["Description"],
    cost               |-> row["Cost"],
    installation       |-> row["Installation"],
    profit_margin      |-> row["Profit Margin"],
    min_volume         |-> row["Min Volume"],
    max_volume         |-> row["Max Volume"],
    total_machine_cost |-> row["Total Machine Cost"] ]

\* Variant: the two volume columns exchanged.
productSwapped(row, vendor) ==
  [ vendor             |-> vendor,
    manufacturer       |-> row["Manufacturer"],
    model              |-> row["Model"],
    speed              |-> row["Speed"],
    description        |-> row["Description"],
    cost               |-> row["Cost"],
    installation       |-> row["Installation"],
    profit_margin      |-> row["Profit Margin"],
    min_volume         |-> row["Max Volume"],
    max_volume         |-> row["Min Volume"],
    total_machine_cost |-> row["Total Machine Cost"] ]

\* Lines 19-31: the document built from one row.
product(row, vendor) ==
  [ vendor             |-> vendor,
    manufacturer       |-> row["Manufacturer"],
    model              |-> row["Model"],
    speed              |-> row["Speed"],
    description        |-> row["Description"],
    cost               |-> row["Cost"],
    installation       |-> row["Installation"],
    profit_margin      |-> row["Profit Margin"],
    min_volume         |-> row["Min Volume"],
    max_volume         |-> row["Max Volume"],
    total_machine_cost |-> row["Total Machine Cost"] ]

\* The first label of lines 21-30 the row does not have (0 if it has all).
RECURSIVE FirstMissing(_, _)
FirstMissing(row, k) ==
  IF k > Len(Headers) THEN 0
  ELSE IF Headers[k] \notin DOMAIN row THEN k
  ELSE FirstMissing(row, k + 1)

\* Variant: the list is not emptied (a list shared by the calls).
KeepProducts(old) == old

\* Line 17: products = []
NewProducts(old) == << >>

\* Line 32: products.append(product)
AppendProduct(list, p) == Append(list, p)

\* Variant: the guard of line 34 left out.
AlwaysTruthy(list) == TRUE

\* Line 34: "if products:" is the truth value of a list.
Truthy(list) == list # << >>

\* Variant: a count that is not the length of the list.
InsertedLineFixed(list, f, v) ==
  [ kind |-> "inserted", count |-> 1, file |-> f, vendor |-> v ]

\* Line 36: the line printed after a successful insert_many.
InsertedLine(list, f, v) ==
  [ kind |-> "inserted", count |-> Len(list), file |-> f, vendor |-> v ]

\* Variants: an error line without the file name, and one without the cause.
ErrorLineNoFile(f, exc) ==
  [ kind |-> "error", file |-> "", cause |-> exc.msg ]

ErrorLineNoCause(f, exc) ==
  [ kind |-> "error", file |-> f, cause |-> "" ]

\* Line 39: the line printed by the handler.
ErrorLine(f, exc) ==
  [ kind |-> "error", file |-> f, cause |-> exc.msg ]

\* ----------------------------------------------------------------- state

VARIABLES
  pc,         \* the statement about to run
  call,       \* how many of the calls of lines 42-46 have been made
  csv_file,   \* argument of the running call
  vendor_id,  \* argument of the running call
  df,         \* local: the data frame
  it,         \* local: position of df.iterrows()
  products,   \* local: the list of documents
  e,          \* local: the exception bound by line 38
  console,    \* lines printed so far
  reads,      \* pd.read_csv calls made so far
  inserts     \* collection.insert_many calls made so far

vars == << pc, call, csv_file, vendor_id, df, it, products, e, console, reads, inserts >>

locals == << df, it, products, e >>

Init ==
  /\ pc = "script"
  /\ call = 0
  /\ csv_file = ""
  /\ vendor_id = ""
  /\ df = NoFrame
  /\ it = 0
  /\ products = << >>
  /\ e = NoError
  /\ console = << >>
  /\ reads = << >>
  /\ inserts = << >>

\* Where control goes when insert_products returns: back to the script,
\* which makes its next call, or ends after the last one.
Returned == IF call = NumCalls THEN "exit" ELSE "script"

\* Variants: a handler that prints nothing, and one that starts the call over.
RaiseSilent(exc) ==
  /\ pc' = Returned
  /\ e' = exc

RaiseRetry(exc) ==
  /\ pc' = "read_csv"
  /\ e' = exc

\* An exception raised inside the try block of lines 13-36: line 38 binds
\* it when it matches, otherwise it leaves insert_products and ends the script.
Raise(exc) ==
  IF Caught(exc)
  THEN /\ pc' = "except"
       /\ e' = exc
  ELSE /\ pc' = "traceback"
       /\ e' = exc

\* Lines 42-46: the next call of the script.
Call ==
  /\ pc = "script"
  /\ call < NumCalls
  /\ call' = call + 1
  /\ csv_file' = Invocations[call + 1].csv_file
  /\ vendor_id' = Invocations[call + 1].vendor_id
  /\ pc' = "read_csv"
  /\ UNCHANGED << locals, console, reads, inserts >>

\* Line 14, pd.read_csv raises: nothing of the call is bound yet.
ReadCsvFails ==
  /\ pc = "read_csv"
  /\ \E exc \in LoadErrors :
       /\ reads' = Append(reads, [ by |-> call, file |-> csv_file, ok |-> FALSE ])
       /\ Raise(exc)
  /\ UNCHANGED << call, csv_file, vendor_id, df, it, products, console, inserts >>

\* Lines 14-18, pd.read_csv returns: df is bound, products is the empty
\* list and the loop starts at the first row.
ReadCsv ==
  /\ pc = "read_csv"
  /\ \E frame \in DataFrames(csv_file) :
       /\ df' = frame
       /\ reads' = Append(reads, [ by |-> call, file |-> csv_file, ok |-> TRUE ])
  /\ products' = NewProducts(products)
  /\ it' = 1
  /\ pc' = "iterrows"
  /\ UNCHANGED << call, csv_file, vendor_id, e, console, inserts >>

\* Lines 18-32, one iteration of the loop.
MapRow ==
  /\ pc = "iterrows"
  /\ it <= Len(df.rows)
  /\ LET row == df.rows[it]
         k   == FirstMissing(row, 1)
     IN  IF k = 0
         THEN /\ products' = AppendProduct(products, product(row, vendor_id))
              /\ it' = it + 1
              /\ UNCHANGED << pc, e >>
         ELSE /\ Raise(KeyError(Headers[k]))
              /\ UNCHANGED << products, it >>
  /\ UNCHANGED << call, csv_file, vendor_id, df, console, reads, inserts >>

\* Line 34, reached when the loop is exhausted.
IfProducts ==
  /\ pc = "iterrows"
  /\ it > Len(df.rows)
  /\ pc' = IF Truthy(products) THEN "insert_many" ELSE Returned
  /\ UNCHANGED << call, csv_file, vendor_id, locals, console, reads, inserts >>

\* Line 35: the one bulk write.  The driver rejects an empty list.
InsertMany ==
  /\ pc = "insert_many"
  /\ \/ /\ products # << >>
        /\ inserts' = Append(inserts, [ by |-> call, docs |-> products, ok |-> TRUE ])
        /\ pc' = "print_inserted"
        /\ UNCHANGED e
     \/ /\ inserts' = Append(inserts, [ by |-> call, docs |-> products, ok |-> FALSE ])
        /\ \E exc \in (IF products = << >> THEN { InvalidOperation } ELSE WriteErrors) :
             Raise(exc)
  /\ UNCHANGED << call, csv_file, vendor_id, df, it, products, console, reads >>

\* Line 36, the last statement of the try block: the call returns.
PrintInserted ==
  /\ pc = "print_inserted"
  /\ console' = Append(console, InsertedLine(products, csv_file, vendor_id))
  /\ pc' = Returned
  /\ UNCHANGED << call, csv_file, vendor_id, locals, reads, inserts >>

\* Lines 38-39: the handler prints, the name e is unbound again when the
\* except clause ends, and the call returns.
PrintError ==
  /\ pc = "except"
  /\ console' = Append(console, ErrorLine(csv_file, e))
  /\ e' = NoError
  /\ pc' = Returned
  /\ UNCHANGED << call, csv_file, vendor_id, df, it, products, reads, inserts >>

Next ==
  \/ Call
  \/ ReadCsvFails
  \/ ReadCsv
  \/ MapRow
  \/ IfProducts
  \/ InsertMany
  \/ PrintInserted
  \/ PrintError

Spec == Init /\ [][Next]_vars

\* The interpreter runs the next statement whenever there is one.
LiveSpec == Spec /\ WF_vars(Next)

\* ---------------------------------------------------------------- claims

Last(seq) == seq[Len(seq)]

\* What call i printed, read and wrote.  A line names its file, and the
\* five calls name five different files.
LinesOf(i)   == SelectSeq(console, LAMBDA l : l.file = Invocations[i].csv_file)
ReadsBy(i)   == SelectSeq(reads,   LAMBDA r : r.by = i)
InsertsBy(i) == SelectSeq(inserts, LAMBDA w : w.by = i)

\* The number of products the lines of call i report as inserted.
RECURSIVE CountIn(_)
CountIn(lines) ==
  IF lines = << >> THEN 0
  ELSE (IF lines[1].kind = "inserted" THEN lines[1].count ELSE 0) + CountIn(Tail(lines))

InsertedCount(i) == CountIn(LinesOf(i))

\* The running (or last) call has read its file: df is its data frame.
Loaded == call >= 1 /\ reads # << >> /\ Last(reads).by = call /\ Last(reads).ok

WellFormed == HeaderSet \subseteq df.columns

\* The last call made has returned; its locals are as it left them.
AtReturn == call >= 1 /\ pc \in { "script", "exit" }

WriteFailed == inserts # << >> /\ Last(inserts).by = call /\ ~Last(inserts).ok

\* Call i has returned to the script.
Finished(i) == i < call \/ (i = call /\ AtReturn)

\* The ten document fields, each at the position of its column in Headers.
Fields ==
  << "manufacturer", "model", "speed", "description", "cost", "installation",
     "profit_margin", "min_volume", "max_volume", "total_machine_cost" >>

FieldSet == { Fields[k] : k \in 1..Len(Fields) }

\* C1: a call on a well-formed file with R >= 1 data rows whose bulk write
\* does not fail makes exactly one bulk write, of R documents, and prints
\* one line that reports R inserted products.
C1_CountEqualsRows ==
  (AtReturn /\ Loaded /\ WellFormed /\ Len(df.rows) >= 1 /\ ~WriteFailed) =>
     /\ Len(InsertsBy(call)) = 1
     /\ InsertsBy(call)[1].ok
     /\ Len(InsertsBy(call)[1].docs) = Len(df.rows)
     /\ Len(LinesOf(call)) = 1
     /\ LinesOf(call)[1].kind = "inserted"
     /\ LinesOf(call)[1].count = Len(df.rows)

C1_Witness ==
  /\ AtReturn /\ Loaded /\ WellFormed /\ ~WriteFailed
  /\ Len(df.rows) = MaxRows
  /\ InsertedCount(call) = MaxRows

\* C2: every document submitted to the collection carries, as vendor, the
\* vendor_id argument of the call that submitted it.
C2_VendorIsArgument ==
  \A k \in 1..Len(inserts) :
    \A j \in 1..Len(inserts[k].docs) :
      inserts[k].docs[j].vendor = Invocations[inserts[k].by].vendor_id

C2_Witness ==
  /\ pc = "print_inserted"
  /\ "vendor" \in df.columns
  /\ Len(inserts) >= 2
  /\ Len(Last(inserts).docs) >= 1

\* C3 (safety part): no exception leaves insert_products, and the calls are
\* started in the listed order, one after another; the script has made all
\* five when it ends.
C3_Safe ==
  /\ pc # "traceback"
  /\ Len(reads) \in { call - 1, call }
  /\ \A k \in 1..Len(reads) :
       reads[k].by = k /\ reads[k].file = Invocations[k].csv_file
  /\ (pc = "exit" => Len(reads) = NumCalls)

\* C3: whatever the outcome of each call (load failure, mapping failure,
\* write failure, success), no error escapes, all five calls are started in
\* the listed order, and the run reaches its end.
C3_AllInvocationsRun == []C3_Safe /\ <>(pc = "exit")

C3_Witness ==
  /\ pc = "exit"
  /\ \E a, b, c, d \in 1..Len(console) :
       /\ a < d
       /\ console[a].kind = "error" /\ console[a].cause = "No such file or directory"
       /\ console[b].kind = "error" /\ console[b].cause = "Model"
       /\ console[c].kind = "error" /\ console[c].cause = "timed out"
       /\ console[d].kind = "inserted"

\* C4: a call whose file loads with zero data rows makes no bulk write, and
\* the number of products it reports as inserted is 0.
C4_EmptyFileNoWrite ==
  (AtReturn /\ Loaded /\ df.rows = << >>) =>
     /\ InsertsBy(call) = << >>
     /\ InsertedCount(call) = 0

C4_Witness ==
  /\ AtReturn /\ Loaded /\ df.rows = << >>
  /\ WellFormed
  /\ Len(inserts) >= 1

\* C5: the documents of a bulk write are in the order of the data rows of
\* the file, the i-th document holds in each of its ten fields the value of
\* the i-th row under the matching header, and its only other field is vendor.
C5_FieldsCopiedInOrder ==
  (Loaded /\ inserts # << >> /\ Last(inserts).by = call) =>
     LET docs == Last(inserts).docs
     IN  /\ Len(docs) = Len(df.rows)
         /\ \A r \in 1..Len(docs) :
              /\ DOMAIN docs[r] = FieldSet \cup { "vendor" }
              /\ \A k \in 1..Len(Fields) :
                   docs[r][Fields[k]] = df.rows[r][Headers[k]]

C5_Witness ==
  /\ Loaded /\ inserts # << >> /\ Last(inserts).by = call
  /\ Len(Last(inserts).docs) = MaxRows
  /\ MaxRows >= 2
  /\ Last(inserts).docs[1] # Last(inserts).docs[2]

\* C6 as stated: every call that has returned has printed exactly one line.
C6_ExactlyOneLine ==
  \A i \in 1..NumCalls : Finished(i) => Len(LinesOf(i)) = 1

\* C6, amended: no call prints more than one line; a call that has returned
\* has printed exactly one line, except that a call whose file loaded with
\* zero data rows has printed none.
C6_AtMostOneLine ==
  /\ \A i \in 1..NumCalls : Len(LinesOf(i)) <= 1
  /\ \A i \in 1..NumCalls : i > call => LinesOf(i) = << >>
  /\ AtReturn =>
       Len(LinesOf(call)) = (IF Loaded /\ df.rows = << >> THEN 0 ELSE 1)

C6_Witness ==
  /\ pc = "exit"
  /\ Loaded /\ df.rows = << >>
  /\ LinesOf(call) = << >>
  /\ Len(console) = NumCalls - 1

\* The running call has hit an absent column while mapping a row.
MappingFailed == Loaded /\ ~WellFormed /\ Len(df.rows) >= 1 /\ pc # "iterrows"

\* C7: when a required column is absent the call is aborted at the first
\* row: the handler of line 38 takes the KeyError, no bulk write is made, no
\* success line is printed, one error line names the file, and the script
\* goes on.
C7_MappingFailureAborts ==
  MappingFailed =>
     /\ pc \in { "except", "script", "exit" }
     /\ (pc = "except" => e = KeyError("Model"))
     /\ InsertsBy(call) = << >>
     /\ products = << >>
     /\ (pc = "except" => LinesOf(call) = << >>)
     /\ (pc # "except" =>
           /\ Len(LinesOf(call)) = 1
           /\ LinesOf(call)[1].kind = "error"
           /\ LinesOf(call)[1].file = csv_file
           /\ LinesOf(call)[1].cause = "Model")
     /\ (pc # "exit" => ENABLED Next)
     /\ (pc = "exit" => call = NumCalls)

C7_Witness ==
  /\ MappingFailed
  /\ Len(df.rows) = MaxRows
  /\ pc = "script"
  /\ call < NumCalls
  /\ Len(LinesOf(call)) = 1

\* C8 as stated: after a failed bulk write no success line is printed and
\* the error line names the file and the vendor id.
C8_ErrorLineNamesVendor ==
  (AtReturn /\ WriteFailed) =>
     /\ Len(LinesOf(call)) = 1
     /\ LinesOf(call)[1].kind = "error"
     /\ LinesOf(call)[1].file = csv_file
     /\ "vendor" \in DOMAIN LinesOf(call)[1]
     /\ LinesOf(call)[1].vendor = vendor_id

\* C8, amended: after a failed bulk write no success line is printed for the
\* call, and the error is logged with the file name and the cause, the only
\* values the error line is built from.
C8_ErrorLineNamesFileAndCause ==
  (AtReturn /\ WriteFailed) =>
     /\ InsertedCount(call) = 0
     /\ Len(LinesOf(call)) = 1
     /\ LinesOf(call)[1].kind = "error"
     /\ LinesOf(call)[1].file = csv_file
     /\ LinesOf(call)[1].cause \in { exc.msg : exc \in WriteErrors }
     /\ DOMAIN LinesOf(call)[1] = { "kind", "file", "cause" }

C8_Witness ==
  /\ AtReturn /\ WriteFailed
  /\ Len(Last(inserts).docs) = MaxRows
  /\ Len(LinesOf(call)) = 1

\* C9: no call reads its file or writes to the collection more than once,
\* so a run makes at most five bulk writes.
C9_NoRetry ==
  /\ \A i \in 1..NumCalls : Len(ReadsBy(i)) <= 1 /\ Len(InsertsBy(i)) <= 1
  /\ Len(inserts) <= NumCalls
  /\ Len(reads) <= NumCalls

C9_Witness ==
  /\ pc = "exit"
  /\ Len(inserts) = NumCalls
  /\ Len(reads) = NumCalls
  /\ \E k \in 1..NumCalls : ~inserts[k].ok

\* C10: a call whose load fails makes no bulk write, and every bulk write
\* submits only documents mapped from the file of the call that makes it,
\* with that call's vendor_id, whatever the earlier calls did.
C10_NoStateCarriedOver ==
  /\ \A i \in 1..NumCalls :
       (\E k \in 1..Len(reads) : reads[k].by = i /\ ~reads[k].ok) => InsertsBy(i) = << >>
  /\ \A k \in 1..Len(inserts) :
       \A j \in 1..Len(inserts[k].docs) :
         LET doc == inserts[k].docs[j]
         IN  /\ doc.vendor = Invocations[inserts[k].by].vendor_id
             /\ \A n \in 1..Len(Fields) :
                  /\ doc[Fields[n]][1] = Invocations[inserts[k].by].csv_file
                  /\ doc[Fields[n]][2] = j

C10_Witness ==
  /\ Len(inserts) >= 2
  /\ ~inserts[1].ok
  /\ Last(inserts).by = inserts[1].by + 2
  /\ \E k \in 1..Len(reads) : ~reads[k].ok /\ reads[k].by = inserts[1].by + 1

====
